---- MODULE Spec2Model ----
(***************************************************************************)
(* Model of the cold start benchmark harness:                              *)
(*   scripts/benchmark_cold_start.py     tool registry, mado acquisition,  *)
(*                                       discovery, templating, main       *)
(*   scripts/generate_benchmark_chart.py results loader, document sync     *)
(*                                                                         *)
(* Text is modelled as sequences of string tokens.  A path is its sequence *)
(* of components, a command is the sequence of its literal pieces and      *)
(* placeholders, a document is the sequence of its lines (the pieces of    *)
(* content.split("\n")), each line a sequence of tokens.                   *)
(***************************************************************************)
EXTENDS Integers, Sequences, FiniteSets, TLC

VARIABLES
    \* ---- environment facts and file system of benchmark_cold_start.py
    system,        \* platform.system()
    machine,       \* platform.machine()
    served,        \* entry names of the archive the release host serves
    toolsDir,      \* benchmark/.tools exists (as a directory)
    madoBin,       \* benchmark/.tools/mado: "absent", "file" (no x bit), "exec"
    archive,       \* the downloaded asset file exists in benchmark/.tools
    ncalls,        \* number of calls made so far (bounded by MaxCalls)
    call,          \* record of the last _ensure_mado() call
    disc,          \* record of the last discover_tools() call
    \* ---- the two entry points
    pc,            \* position of main() of benchmark_cold_start.py
    args,          \* parsed command line: [tools]
    hyperfine,     \* `hyperfine --version`: "ok", "missing" (no such file), "broken"
    targetExists,  \* target_path.exists()
    tools,         \* result of discover_tools() inside main
    engineLog,     \* every start of the hyperfine process, in order
    benchResult,   \* "none", "ok", "failed": what run_benchmark returned
    resultsFile,   \* benchmark/results/cold_start.json: "absent", "valid", "partial"
    resultsFile0,  \* its state when main() started
    exitCode,      \* exit status of the first entry point, -1 while running
    chart,         \* record of the run of the second entry point
    \* ---- command templating
    renders,       \* the renderings made so far: [target, root, commands]
    \* ---- document synchronisation
    docExists,     \* docs/comparison.md exists
    content,       \* its lines
    before,        \* its lines before the last synchronisation
    results,       \* data["results"]: sequence of [command, mean] (mean in ms)
    synced         \* the date strings of the synchronisations made, in order

envVars  == <<system, machine, served>>
fsVars   == <<toolsDir, madoBin, archive>>
acqVars  == <<ncalls, call, disc>>
mainVars == <<pc, args, hyperfine, targetExists, tools, engineLog,
              benchResult, resultsFile, resultsFile0, exitCode, chart>>
tplVars  == <<renders>>
docVars  == <<docExists, content, before, results, synced>>
vars     == <<envVars, fsVars, acqVars, mainVars, tplVars, docVars>>

(***************************************************************************)
(* Bounds of the model.                                                    *)
(***************************************************************************)
MaxEntries  == 2   \* entries in a downloaded archive
MaxSelected == 2   \* names in a `selected` list
MaxCalls    == 2   \* calls of _ensure_mado made in sequence
MaxTargetLen == 3  \* tokens in a target path
MaxRenders  == 2   \* renderings compared with each other
MaxLines    == 4   \* lines of the comparison document
MaxResults  == 2   \* records of the results document
MaxRuns     == 2   \* synchronisations in sequence

(***************************************************************************)
(* Sequence helpers.                                                       *)
(***************************************************************************)
Range(s) == {s[i] : i \in 1..Len(s)}

Last(s) == s[Len(s)]

SeqsUpTo(S, n) == UNION {[1..k -> S] : k \in 0..n}

RECURSIVE Flatten(_)
\* The string a token sequence stands for.
Flatten(toks) == IF toks = <<>> THEN "" ELSE Head(toks) \o Flatten(Tail(toks))

(***************************************************************************)
(* The tool registry (TOOLS).  A command template is a token sequence in   *)
(* which the placeholders {target} and {mado_bin} are tokens of their own. *)
(***************************************************************************)
TGT == "{target}"
MBIN == "{mado_bin}"

TOOLS ==
    ("rumdl" :>
        [cmd |-> <<"./target/release/rumdl check --no-cache '", TGT, "'">>,
         category |-> "lint", check |-> "rumdl"]) @@
    ("markdownlint-cli" :>
        [cmd |-> <<"npx markdownlint-cli '", TGT, "'">>,
         category |-> "lint", check |-> "npx"]) @@
    ("markdownlint-cli2" :>
        [cmd |-> <<"cd '", TGT, "' && npx markdownlint-cli2 '**/*.md'">>,
         category |-> "lint", check |-> "npx"]) @@
    ("remark-lint" :>
        [cmd |-> <<"npx remark --use remark-preset-lint-recommended --quiet '", TGT, "'">>,
         category |-> "lint", check |-> "npx"]) @@
    ("pymarkdown" :>
        [cmd |-> <<"uvx pymarkdownlnt scan '", TGT, "'">>,
         category |-> "lint", check |-> "uvx"]) @@
    ("mado" :>
        [cmd |-> <<"'", MBIN, "' check '", TGT, "'">>,
         category |-> "lint", check |-> "mado"]) @@
    ("mdformat" :>
        [cmd |-> <<"uvx mdformat --check '", TGT, "'">>,
         category |-> "format", check |-> "uvx"]) @@
    ("Prettier" :>
        [cmd |-> <<"npx prettier --check '", TGT, "/**/*.md'">>,
         category |-> "format", check |-> "npx"])

\* list(TOOLS.keys()): the registry's names in definition order.
ToolKeys == <<"rumdl", "markdownlint-cli", "markdownlint-cli2", "remark-lint",
              "pymarkdown", "mado", "mdformat", "Prettier">>

ToolNames == DOMAIN TOOLS

(***************************************************************************)
(* _ensure_mado: the file system it acts on is [dir, bin, archive]; the    *)
(* environment of one call is                                              *)
(*   system, machine : the platform                                        *)
(*   entries : the names of the entries of the served archive, in order,   *)
(*             each a sequence of path components                          *)
(*   mode    : the mode a tar member named mado is extracted with          *)
(*   fault   : the step of this call that fails, if any                    *)
(*   partial : whether a failing download or extraction leaves the part of *)
(*             the file it had written                                     *)
(***************************************************************************)
Systems  == {"Darwin", "Linux", "Windows"}
Machines == {"arm64", "x86_64"}
Faults   == {"none", "mkdir", "download", "open", "extract", "unlink", "chmod"}

EntryNames == {<<"mado">>, <<"mado-v0.3.0", "mado">>, <<"mado.exe">>,
               <<"README.md">>}

Archives == SeqsUpTo(EntryNames, MaxEntries)

\* The environments of a call on a platform and a served archive.  Mode and
\* partial are drawn only where the call can tell them apart.
MadoEnvs(sys, mach, entries) ==
    {e \in [system : {sys}, machine : {mach}, entries : {entries},
            mode : {"file", "exec"}, fault : Faults, partial : BOOLEAN] :
        /\ e.partial => e.fault \in {"download", "extract"}
        /\ e.mode = "file" => e.fault \in {"unlink", "chmod"}}

os_name(sys) ==
    IF sys = "Darwin" THEN "macOS"
    ELSE IF sys = "Linux" THEN "Linux-gnu"
    ELSE "Windows-msvc"

arch(mach) == IF mach \in {"arm64", "aarch64"} THEN "arm64" ELSE "x86_64"

\* The asset's file name, as the pieces of the f-string; the last piece is
\* the extension.
asset_name(sys, mach) ==
    <<"mado-", os_name(sys), "-", arch(mach),
      IF sys = "Windows" THEN ".zip" ELSE ".tar.gz">>

\* name.endswith("/" + base) for a name given by its components.
EndsWithSlash(name, base) == Len(name) >= 2 /\ Last(name) = base

\* The test of the tar branch on a member's name.
TarMatch(name) == EndsWithSlash(name, "mado") \/ name = <<"mado">>

\* The test of the zip branch on an entry's name.
ZipMatch(name) == EndsWithSlash(name, "mado") \/ EndsWithSlash(name, "mado.exe")

\* Whether the scan of the tar members reaches a member it extracts.
TarFinds(entries) == \E i \in 1..Len(entries) : TarMatch(entries[i])

\* Whether the scan of the zip names reaches an entry it writes.
ZipFinds(entries) == \E i \in 1..Len(entries) : ZipMatch(entries[i])

Outcome(fs, ret, raised, downloaded) ==
    [fs |-> fs, ret |-> ret, raised |-> raised, downloaded |-> downloaded]

\* The body of _ensure_mado() after the fast path: resolve the asset, create
\* the cache directory, download, extract, delete the archive, chmod.
Acquire(fs, env) ==
    LET asset == asset_name(env.system, env.machine)
    IN
    IF env.fault = "mkdir" /\ ~fs.dir
    THEN \* MADO_TOOLS_DIR.mkdir is outside the try block
         Outcome(fs, FALSE, TRUE, FALSE)
    ELSE
    LET fs1 == [fs EXCEPT !.dir = TRUE]
    IN
    IF env.fault = "download"
    THEN Outcome([fs1 EXCEPT !.archive = fs.archive \/ env.partial],
                 FALSE, FALSE, TRUE)
    ELSE
    LET fs2 == [fs1 EXCEPT !.archive = TRUE]
        found == IF Last(asset) = ".tar.gz" THEN TarFinds(env.entries)
                 ELSE IF Last(asset) = ".zip" THEN ZipFinds(env.entries)
                 ELSE FALSE
        written == IF Last(asset) = ".tar.gz" THEN env.mode ELSE "file"
    IN
    IF env.fault = "open"
    THEN Outcome(fs2, FALSE, FALSE, TRUE)
    ELSE IF found /\ env.fault = "extract"
    THEN Outcome([fs2 EXCEPT !.bin = IF env.partial THEN "file" ELSE fs.bin],
                 FALSE, FALSE, TRUE)
    ELSE
    LET fs3 == IF found THEN [fs2 EXCEPT !.bin = written] ELSE fs2
    IN
    IF env.fault = "unlink"
    THEN Outcome(fs3, FALSE, FALSE, TRUE)
    ELSE
    LET fs4 == [fs3 EXCEPT !.archive = FALSE]
    IN
    IF fs4.bin # "absent"
    THEN IF env.fault = "chmod"
         THEN Outcome(fs4, FALSE, FALSE, TRUE)
         ELSE Outcome([fs4 EXCEPT !.bin = "exec"], TRUE, FALSE, TRUE)
    ELSE Outcome(fs4, FALSE, FALSE, TRUE)

\* Mutant of EnsureMado: the fast path on an existing cache file is missing.
EnsureMado_NoFastPath(fs, env) == Acquire(fs, env)

\* _ensure_mado(): the file system after the call, the value returned (ret),
\* whether an exception left the function (raised), and whether the download
\* was started (downloaded).
EnsureMado(fs, env) ==
    IF fs.bin # "absent"
    THEN Outcome(fs, TRUE, FALSE, FALSE)
    ELSE Acquire(fs, env)

(***************************************************************************)
(* discover_tools.  `selected` is [given, names]: given = FALSE is None.   *)
(* `launchers` is [rumdl, npx, uvx]: whether ./target/release/rumdl exists *)
(* and whether `npx --version` and `uvx --version` succeed; `env` is the   *)
(* environment of the calls of _ensure_mado it makes.                      *)
(***************************************************************************)
NoneSelected == [given |-> FALSE, names |-> <<>>]

\* tool["check"](): the probe of one registry entry.
Check(name, fs, launchers, env) ==
    LET kind == TOOLS[name].check
    IN  IF kind = "rumdl" THEN Outcome(fs, launchers.rumdl, FALSE, FALSE)
        ELSE IF kind = "npx" THEN Outcome(fs, launchers.npx, FALSE, FALSE)
        ELSE IF kind = "uvx" THEN Outcome(fs, launchers.uvx, FALSE, FALSE)
        ELSE EnsureMado(fs, env)

\* available[name] = tool on a dict kept as the sequence of its keys.
SetKey(keys, name) == IF name \in Range(keys) THEN keys ELSE Append(keys, name)

\* The state of a discover_tools() call: the dict built so far, the log of
\* the probes made (name, result), the names warned about, whether an
\* exception left the call, and the file system.
DiscState(fs) ==
    [available |-> <<>>, probes |-> <<>>, warned |-> <<>>, raised |-> FALSE,
     fs |-> fs]

\* Mutant of ProbeStep: the result of the probe is not tested, every
\* registry entry that was probed is added.
ProbeStep_AddsUnavailable(name, st, launchers, env) ==
    IF name \notin ToolNames
    THEN [st EXCEPT !.warned = Append(@, name)]
    ELSE LET r == Check(name, st.fs, launchers, env)
         IN  IF r.raised
             THEN [st EXCEPT !.fs = r.fs, !.raised = TRUE]
             ELSE [st EXCEPT !.fs = r.fs,
                             !.probes = Append(@, <<name, r.ret>>),
                             !.available = SetKey(@, name)]

\* One iteration of the loop of discover_tools().
ProbeStep(name, st, launchers, env) ==
    IF name \notin ToolNames
    THEN [st EXCEPT !.warned = Append(@, name)]
    ELSE LET r == Check(name, st.fs, launchers, env)
         IN  IF r.raised
             THEN [st EXCEPT !.fs = r.fs, !.raised = TRUE]
             ELSE [st EXCEPT !.fs = r.fs,
                             !.probes = Append(@, <<name, r.ret>>),
                             !.available = IF r.ret THEN SetKey(@, name) ELSE @]

RECURSIVE ProbeAll(_, _, _, _)
\* The loop of discover_tools() over tool_names; an exception ends it.
ProbeAll(names, st, launchers, env) ==
    IF names = <<>> \/ st.raised THEN st
    ELSE ProbeAll(Tail(names), ProbeStep(Head(names), st, launchers, env),
                  launchers, env)

\* tool_names = selected if selected else list(TOOLS.keys())
tool_names(selected) ==
    IF selected.given /\ selected.names # <<>> THEN selected.names ELSE ToolKeys

DiscoverTools(selected, fs, launchers, env) ==
    ProbeAll(tool_names(selected), DiscState(fs), launchers, env)

(***************************************************************************)
(* Command templating (run_benchmark).  A path is the token sequence of    *)
(* its text; the text a placeholder stands for is spliced in its place.    *)
(***************************************************************************)
RECURSIVE Replace(_, _, _)
\* str.replace(old, new) for a placeholder token `old`: one pass, left to
\* right, the text put in is not scanned again.
Replace(toks, old, new) ==
    IF toks = <<>> THEN <<>>
    ELSE (IF Head(toks) = old THEN new ELSE <<Head(toks)>>)
         \o Replace(Tail(toks), old, new)

\* str(_mado_bin_path().resolve()) with the project root as working directory.
mado_bin(root) == root \o <<"/benchmark/.tools/mado">>

\* The command of one tool: {target} is replaced first, {mado_bin} second,
\* on the result of the first replacement.
RenderCommand(cmd, target_abs, root) ==
    Replace(Replace(cmd, TGT, target_abs), MBIN, mado_bin(root))

\* The commands run_benchmark hands to hyperfine: for each tool of the
\* dict, in its order, the name and the final command string.
BuildCommands(names, target_abs, root) ==
    [i \in 1..Len(names) |->
        [name |-> names[i],
         cmd |-> Flatten(RenderCommand(TOOLS[names[i]].cmd, target_abs, root))]]

(***************************************************************************)
(* Document synchronisation (update_comparison_doc).                       *)
(*                                                                         *)
(* A line is a sequence of tokens.  The tokens a pattern tells apart are   *)
(* tokens of their own: "|" is the only token that holds a pipe, a table   *)
(* cell is the token between two pipes, a date stamp is its label, month,  *)
(* blank, year and full stop.  White space inside the header and separator *)
(* cells is blanks (the patterns' \s would also take a line break).        *)
(***************************************************************************)
\* Tokens \w+ matches.
WordToks == {"March", "November", "December", "2024", "2026", "24"}

\* Tokens \d{4} matches.
YearToks == {"2024", "2026"}

\* date_str = datetime.now().strftime("%B %Y"), as [month, year].
DateToks(date) == <<date.month, " ", date.year, ".">>

\* The tokens at the head of `toks` match `\w+ \d{4}\.` after a label.
StampAt(toks, label) ==
    /\ Len(toks) >= 5 /\ toks[1] = label
    /\ toks[2] \in WordToks /\ toks[3] = " " /\ toks[4] \in YearToks
    /\ toks[5] = "."

RECURSIVE SubVerified(_, _)
\* re.subn(r"Last verified: \w+ \d{4}\.", ...) on one line.
SubVerified(line, date) ==
    IF line = <<>> THEN <<>>
    ELSE IF StampAt(line, "Last verified: ")
    THEN <<"Last verified: ">> \o DateToks(date)
         \o SubVerified(SubSeq(line, 6, Len(line)), date)
    ELSE <<Head(line)>> \o SubVerified(Tail(line), date)

\* re.subn(r"Last run:\n> \w+ \d{4}\.", ...): the label ends a line and the
\* stamp starts the next one.
SubLastRun(lines, date) ==
    [i \in 1..Len(lines) |->
        IF /\ i > 1 /\ lines[i-1] # <<>> /\ Last(lines[i-1]) = "Last run:"
           /\ StampAt(lines[i], "> ")
        THEN <<"> ">> \o DateToks(date) \o SubSeq(lines[i], 6, Len(lines[i]))
        ELSE lines[i]]

\* The two date substitutions.
SubDates(lines, date) ==
    SubLastRun([i \in 1..Len(lines) |-> SubVerified(lines[i], date)], date)

categories ==
    ("rumdl" :> "Lint") @@ ("markdownlint-cli" :> "Lint") @@
    ("markdownlint-cli2" :> "Lint") @@ ("remark-lint" :> "Lint") @@
    ("pymarkdown" :> "Lint") @@ ("mado" :> "Lint") @@
    ("mdformat" :> "Format") @@ ("Prettier" :> "Format")

RECURSIVE Blanks(_)
Blanks(n) == IF n <= 0 THEN "" ELSE " " \o Blanks(n - 1)

\* f"{s:<w}": left aligned in a field of at least w characters.
Pad(s, w) == s \o Blanks(w - Len(s))

\* n / d rounded to the nearest integer, ties to even (the rounding of
\* a format specification on a value that is exact).
RoundDiv(n, d) ==
    LET q == n \div d
        r == n % d
    IN  IF 2 * r > d THEN q + 1
        ELSE IF 2 * r = d THEN q + (q % 2)
        ELSE q

\* f"{n/d:.1f}"
Fixed1(n, d) ==
    LET t == RoundDiv(10 * n, d) IN ToString(t \div 10) \o "." \o ToString(t % 10)

\* f"{n/d:.2f}"
Fixed2(n, d) ==
    LET h == RoundDiv(100 * n, d)
    IN  ToString(h \div 100) \o "." \o ToString((h % 100) \div 10)
        \o ToString(h % 10)

RECURSIVE InsertSorted(_, _)
\* r put into the sorted sequence s after the records that are not slower.
InsertSorted(s, r) ==
    IF s = <<>> THEN <<r>>
    ELSE IF Head(s).mean <= r.mean THEN <<Head(s)>> \o InsertSorted(Tail(s), r)
    ELSE <<r>> \o s

RECURSIVE SortByMean(_)
\* sorted(results, key=lambda r: r["mean"]): ascending and stable.
SortByMean(rs) ==
    IF rs = <<>> THEN <<>>
    ELSE InsertSorted(SortByMean(SubSeq(rs, 1, Len(rs) - 1)), rs[Len(rs)])

\* rumdl_mean: the mean of the first record of rumdl, -1 for None.
RumdlMean(sorted_results) ==
    IF \E i \in 1..Len(sorted_results) : sorted_results[i].command = "rumdl"
    THEN sorted_results[CHOOSE i \in 1..Len(sorted_results) :
            /\ sorted_results[i].command = "rumdl"
            /\ \A j \in 1..(i-1) : sorted_results[j].command # "rumdl"].mean
    ELSE -1

\* One row of the table; means are in milliseconds.
Row(r, rumdl_mean) ==
    LET cat == IF r.command \in DOMAIN categories THEN categories[r.command]
               ELSE "Lint"
        mean_str == IF r.mean < 1000 THEN ToString(r.mean) \o " ms"
                    ELSE Fixed1(r.mean, 1000) \o " s"
        vs_str == IF rumdl_mean > 0
                  THEN IF 10 * r.mean < rumdl_mean
                       THEN Fixed2(r.mean, rumdl_mean) \o "x"
                       ELSE Fixed1(r.mean, rumdl_mean) \o "x"
                  ELSE "-"
    IN  <<"|", " " \o Pad("**" \o r.command \o "**", 23) \o " ",
          "|", " " \o Pad(cat, 6) \o " ",
          "|", " " \o Pad(mean_str, 6) \o " ",
          "|", " " \o Pad(vs_str, 8) \o " ", "|">>

\* rows: one row per record, ascending by mean.
BuildRows(rs) ==
    LET sorted_results == SortByMean(rs)
    IN  [i \in 1..Len(sorted_results) |->
            Row(sorted_results[i], RumdlMean(sorted_results))]

\* table_header: its two lines.
HeaderLine ==
    <<"|", " Tool                    ", "|", " Type   ", "|", " Mean   ",
      "|", " vs rumdl ", "|">>

SeparatorLine ==
    <<"|", " ----------------------- ", "|", " ------ ", "|", " ------ ",
      "|", " -------- ", "|">>

\* Cells the header pattern takes: the title, then \s+ (\s* after vs rumdl).
ToolCells == {" Tool ", " Tool                    "}
TypeCells == {" Type ", " Type   "}
MeanCells == {" Mean ", " Mean   "}
VsCells   == {" vs rumdl", " vs rumdl "}

\* Cells [\s-]+ takes.
DashCells == {" ----------------------- ", " ------ ", " -------- ", "---"}

\* Nine tokens that match the first line of table_pattern.
IsHeader(toks) ==
    /\ Len(toks) = 9
    /\ \A k \in {1, 3, 5, 7, 9} : toks[k] = "|"
    /\ toks[2] \in ToolCells /\ toks[4] \in TypeCells
    /\ toks[6] \in MeanCells /\ toks[8] \in VsCells

\* Where in a line the header pattern matches (it ends the line but need
\* not start it), 0 when it does not.
HeaderStart(line) ==
    IF Len(line) >= 9 /\ IsHeader(SubSeq(line, Len(line) - 8, Len(line)))
    THEN Len(line) - 8 ELSE 0

\* A whole line that matches the second line of table_pattern.
IsSeparator(line) ==
    /\ Len(line) = 9
    /\ \A k \in {1, 3, 5, 7, 9} : line[k] = "|"
    /\ \A k \in {2, 4, 6, 8} : line[k] \in DashCells

\* A whole line that matches \|.*\| .
IsRow(line) == Len(line) >= 2 /\ line[1] = "|" /\ Last(line) = "|"

\* table_pattern matches at line i: header, line break, separator, line
\* break.  A line is followed by a line break iff it is not the last one.
MatchAt(lines, i) ==
    /\ HeaderStart(lines[i]) > 0
    /\ i + 2 <= Len(lines)
    /\ IsSeparator(lines[i+1])

RECURSIVE RowsEnd(_, _)
\* (?:\|.*\|\n)* from line j: the first line it does not take.
RowsEnd(lines, j) ==
    IF j + 1 <= Len(lines) /\ IsRow(lines[j]) THEN RowsEnd(lines, j + 1) ELSE j

\* new_table as the lines it puts in: header, separator, "\n".join(rows),
\* and the line break that ends it.  An empty join is one empty line.
NewTableLines(prefix, rows) ==
    <<prefix \o HeaderLine, SeparatorLine>>
    \o (IF rows = <<>> THEN << <<>> >> ELSE rows)

RECURSIVE SubTable(_, _, _)
\* table_pattern.sub(new_table, content) from line i on: every match,
\* left to right, is replaced; what is put in is not scanned again.
SubTable(lines, i, rows) ==
    IF i > Len(lines) THEN <<>>
    ELSE IF MatchAt(lines, i)
    THEN NewTableLines(SubSeq(lines[i], 1, HeaderStart(lines[i]) - 1), rows)
         \o SubTable(lines, RowsEnd(lines, i + 2), rows)
    ELSE <<lines[i]>> \o SubTable(lines, i + 1, rows)

\* update_comparison_doc() on an existing document: the content written.
UpdateComparisonDoc(lines, rs, date) ==
    SubTable(SubDates(lines, date), 1, BuildRows(rs))

(***************************************************************************)
(* Values of the variables a specification does not use.                   *)
(***************************************************************************)
Launchers == [rumdl : BOOLEAN, npx : BOOLEAN, uvx : BOOLEAN]

NoLaunchers == [rumdl |-> FALSE, npx |-> FALSE, uvx |-> FALSE]

FsStates ==
    {f \in [dir : BOOLEAN, bin : {"absent", "file", "exec"}, archive : BOOLEAN] :
        (f.bin # "absent" \/ f.archive) => f.dir}

Fs == [dir |-> toolsDir, bin |-> madoBin, archive |-> archive]

NoFs == [dir |-> FALSE, bin |-> "absent", archive |-> FALSE]

NoCall ==
    [made |-> FALSE, fsBefore |-> NoFs, fault |-> "none",
     ret |-> FALSE, raised |-> FALSE, downloaded |-> FALSE]

NoDisc ==
    [made |-> FALSE, selected |-> NoneSelected, launchers |-> NoLaunchers,
     out |-> DiscState(NoFs)]

NoChart == [ran |-> FALSE, outcome |-> "none", exit |-> -1]

AcqIdle == ncalls = 0 /\ call = NoCall /\ disc = NoDisc

MainIdle ==
    /\ pc = "idle" /\ args = [tools |-> NoneSelected]
    /\ hyperfine = "missing" /\ targetExists = FALSE
    /\ tools = NoDisc /\ engineLog = <<>> /\ benchResult = "none"
    /\ resultsFile = "absent" /\ resultsFile0 = "absent"
    /\ exitCode = -1 /\ chart = NoChart

TplIdle == renders = <<>>

DocIdle ==
    /\ docExists = FALSE /\ content = << <<>> >> /\ before = << <<>> >>
    /\ results = <<>> /\ synced = <<>>

(***************************************************************************)
(* SpecAcquire: _ensure_mado() called in sequence, on every platform,      *)
(* cache state and served archive.                                         *)
(***************************************************************************)
InitAcquire ==
    /\ system \in Systems /\ machine \in Machines /\ served \in Archives
    /\ \E f \in FsStates :
          toolsDir = f.dir /\ madoBin = f.bin /\ archive = f.archive
    /\ AcqIdle /\ MainIdle /\ TplIdle /\ DocIdle

\* A call of _ensure_mado().
EnsureMadoCall ==
    /\ ncalls < MaxCalls
    /\ \E env \in MadoEnvs(system, machine, served) :
          LET r == EnsureMado(Fs, env)
          IN  /\ toolsDir' = r.fs.dir
              /\ madoBin' = r.fs.bin
              /\ archive' = r.fs.archive
              /\ call' = [made |-> TRUE, fsBefore |-> Fs, fault |-> env.fault,
                          ret |-> r.ret, raised |-> r.raised,
                          downloaded |-> r.downloaded]
    /\ ncalls' = ncalls + 1
    /\ UNCHANGED <<envVars, disc, mainVars, tplVars, docVars>>

NextAcquire == EnsureMadoCall

SpecAcquire == InitAcquire /\ [][NextAcquire]_vars

(***************************************************************************)
(* SpecDiscover: one call of discover_tools(selected), for every           *)
(* selection, launcher availability and cache state.                       *)
(***************************************************************************)
\* The names a `selected` list is drawn from: registry names of each kind
\* of probe, and one name that is not in the registry.
SelectNames == {"rumdl", "markdownlint-cli", "mdformat", "mado", "nosuchtool"}

Selections ==
    {NoneSelected} \cup
    {[given |-> TRUE, names |-> n] : n \in SeqsUpTo(SelectNames, MaxSelected)}

\* The environments _ensure_mado meets when discover_tools calls it.
ProbeEnvs(sys, mach, entries) ==
    {e \in MadoEnvs(sys, mach, entries) : e.fault \in {"none", "mkdir", "download"}}

InitDiscover ==
    /\ system \in {"Linux", "Windows"} /\ machine = "x86_64"
    /\ served \in {<<>>, << <<"README.md">>, <<"mado-v0.3.0", "mado">> >>}
    /\ \E f \in FsStates :
          toolsDir = f.dir /\ madoBin = f.bin /\ archive = f.archive
    /\ AcqIdle /\ MainIdle /\ TplIdle /\ DocIdle

\* A call of discover_tools(selected).
DiscoverToolsCall ==
    /\ ~disc.made
    /\ \E selected \in Selections, launchers \in Launchers,
          env \in ProbeEnvs(system, machine, served) :
          LET out == DiscoverTools(selected, Fs, launchers, env)
          IN  /\ toolsDir' = out.fs.dir
              /\ madoBin' = out.fs.bin
              /\ archive' = out.fs.archive
              /\ disc' = [made |-> TRUE, selected |-> selected,
                          launchers |-> launchers, out |-> out]
    /\ UNCHANGED <<envVars, ncalls, call, mainVars, tplVars, docVars>>

NextDiscover == DiscoverToolsCall

SpecDiscover == InitDiscover /\ [][NextDiscover]_vars

(***************************************************************************)
(* SpecDoc: update_comparison_doc() run in sequence on every document of   *)
(* up to MaxLines lines and every results list of up to MaxResults records.*)
(***************************************************************************)
ProseLine    == <<"Some prose.">>
OldRowLine   == <<"|", " **old** ", "|", " Lint ", "|", " 9 ms ", "|", " 1.0x ", "|">>
\* A hand-written header after other text on its line.
NoteHeaderLine ==
    <<"Results: ", "|", " Tool ", "|", " Type ", "|", " Mean ", "|", " vs rumdl", "|">>
\* A line that starts with the table delimiter and does not end with it.
OpenRowLine  == <<"|", " unfinished">>
VerifiedLine == <<"Page header. ", "Last verified: ", "March", " ", "2024", ".">>
LastRunLine  == <<"> ", "Last run:">>
RunDateLine  == <<"> ", "March", " ", "2024", ".">>

\* The lines a document is made of; <<>> is the empty line, and the last
\* line of a document that ends with a line break.
LineKinds ==
    {ProseLine, <<>>, HeaderLine, NoteHeaderLine, SeparatorLine, OldRowLine,
     OpenRowLine, VerifiedLine, LastRunLine, RunDateLine}

Documents == UNION {[1..k -> LineKinds] : k \in 1..MaxLines}

ResultRecords ==
    {[command |-> "rumdl", mean |-> 50], [command |-> "mado", mean |-> 3],
     [command |-> "Prettier", mean |-> 1250]}

Dates == {[month |-> "November", year |-> "2026"],
          [month |-> "December", year |-> "2026"]}

InitDoc ==
    /\ docExists \in BOOLEAN
    /\ content \in Documents
    /\ ~docExists => content = << <<>> >>
    /\ before = content
    /\ results \in SeqsUpTo(ResultRecords, MaxResults)
    /\ synced = <<>>
    /\ system = "Linux" /\ machine = "x86_64" /\ served = <<>>
    /\ toolsDir = FALSE /\ madoBin = "absent" /\ archive = FALSE
    /\ AcqIdle /\ MainIdle /\ TplIdle

\* A run of update_comparison_doc(results_file) in the month `date`.
Sync ==
    /\ Len(synced) < MaxRuns
    /\ \E date \in Dates :
          /\ content' = IF docExists
                        THEN UpdateComparisonDoc(content, results, date)
                        ELSE content
          /\ synced' = Append(synced, date)
    /\ before' = content
    /\ UNCHANGED <<docExists, results, envVars, fsVars, acqVars, mainVars, tplVars>>

NextDoc == Sync

SpecDoc == InitDoc /\ [][NextDoc]_vars

(***************************************************************************)
(* SpecTemplate: the command list of run_benchmark() built for every       *)
(* target path of up to MaxTargetLen tokens, all tools available.          *)
(***************************************************************************)
\* The pieces a target path is made of.  Every piece but a placeholder
\* text starts with a slash and none ends with one, so every sequence that
\* starts with such a piece is an absolute path with no empty component.
TargetToks == {"/x", "/p", "/benchmark/.tools/mado", MBIN, TGT}

Targets ==
    {t \in SeqsUpTo(TargetToks, MaxTargetLen) : t # <<>> /\ t[1] \notin {MBIN, TGT}}

\* The project roots (the working directory after os.chdir).
Roots == {<<"/p">>, <<"/p", "/x">>}

InitTemplate ==
    /\ renders = <<>>
    /\ system = "Linux" /\ machine = "x86_64" /\ served = <<>>
    /\ toolsDir = FALSE /\ madoBin = "absent" /\ archive = FALSE
    /\ AcqIdle /\ MainIdle /\ DocIdle

\* The command list run_benchmark(tools, target_repo) builds, every tool
\* of the registry being available; the project root stays the same.
RenderCommands ==
    /\ Len(renders) < MaxRenders
    /\ \E target_abs \in Targets, root \in Roots :
          /\ renders # <<>> => root = renders[1].root
          /\ renders' = Append(renders,
                [target |-> target_abs, root |-> root,
                 commands |-> BuildCommands(ToolKeys, target_abs, root)])
    /\ UNCHANGED <<envVars, fsVars, acqVars, mainVars, docVars>>

NextTemplate == RenderCommands

SpecTemplate == InitTemplate /\ [][NextTemplate]_vars

(***************************************************************************)
(* SpecMain: main() of benchmark_cold_start.py step by step, then one run  *)
(* of main() of generate_benchmark_chart.py.                               *)
(***************************************************************************)
\* The results document hyperfine exports: one record per command name,
\* here with the means 50 ms, 100 ms, ...
EngineResults(names) ==
    [i \in 1..Len(names) |-> [command |-> names[i], mean |-> 50 * i]]

\* args.tools: None, or a non-empty list of registry names (nargs="+",
\* choices=list(TOOLS.keys())).
MainSelections ==
    {NoneSelected} \cup
    {[given |-> TRUE, names |-> n] :
        n \in SeqsUpTo(SelectNames \cap ToolNames, MaxSelected) \ {<<>>}}

\* The target of a run of main(): the default, resolved.
MainTarget == <<"/p", "/rust-book">>

MainRoot == <<"/p", "/rumdl">>

InitMain ==
    /\ pc = "start"
    /\ args \in [tools : MainSelections]
    /\ hyperfine \in {"ok", "missing", "broken"}
    /\ targetExists \in BOOLEAN
    /\ tools = NoDisc /\ engineLog = <<>> /\ benchResult = "none"
    /\ resultsFile0 \in {"absent", "valid", "partial"}
    /\ resultsFile = resultsFile0
    /\ exitCode = -1 /\ chart = NoChart
    /\ system \in {"Linux", "Windows"} /\ machine = "x86_64"
    /\ served \in {<<>>, << <<"README.md">>, <<"mado-v0.3.0", "mado">> >>}
    /\ \E f \in {NoFs, [dir |-> TRUE, bin |-> "exec", archive |-> FALSE]} :
          toolsDir = f.dir /\ madoBin = f.bin /\ archive = f.archive
    /\ docExists \in BOOLEAN
    /\ content = IF docExists
                 THEN <<ProseLine, HeaderLine, SeparatorLine, OldRowLine, <<>> >>
                 ELSE << <<>> >>
    /\ before = content
    /\ results = IF resultsFile0 = "valid" THEN EngineResults(<<"rumdl">>) ELSE <<>>
    /\ synced = <<>>
    /\ AcqIdle /\ TplIdle

\* sys.exit(code), or the exit of the interpreter on an uncaught exception.
Exit(code) == pc' = "exited" /\ exitCode' = code

\* check_hyperfine(): `hyperfine --version` is run; the process starts
\* unless the executable is missing.
CheckHyperfine ==
    /\ pc = "start"
    /\ engineLog' = IF hyperfine = "missing" THEN engineLog
                    ELSE Append(engineLog, "--version")
    /\ IF hyperfine = "ok"
       THEN pc' = "discover" /\ exitCode' = exitCode
       ELSE Exit(1)
    /\ UNCHANGED <<args, hyperfine, targetExists, tools, benchResult,
                   resultsFile, resultsFile0, chart,
                   envVars, fsVars, acqVars, tplVars, docVars>>

\* tools = discover_tools(args.tools); no tool found is fatal.
Discover ==
    /\ pc = "discover"
    /\ \E launchers \in Launchers, env \in ProbeEnvs(system, machine, served) :
          LET out == DiscoverTools(args.tools, Fs, launchers, env)
          IN  /\ toolsDir' = out.fs.dir
              /\ madoBin' = out.fs.bin
              /\ archive' = out.fs.archive
              /\ tools' = [made |-> TRUE, selected |-> args.tools,
                           launchers |-> launchers, out |-> out]
              /\ IF out.raised \/ out.available = <<>>
                 THEN Exit(1)
                 ELSE pc' = "validate" /\ exitCode' = exitCode
    /\ UNCHANGED <<args, hyperfine, targetExists, engineLog, benchResult,
                   resultsFile, resultsFile0, chart,
                   envVars, acqVars, tplVars, docVars>>

\* Mutant of ValidateTarget: a missing target is reported and the run
\* goes on.
ValidateTarget_NoExit ==
    /\ pc = "validate"
    /\ pc' = "results_dir" /\ exitCode' = exitCode
    /\ UNCHANGED <<args, hyperfine, targetExists, tools, engineLog, benchResult,
                   resultsFile, resultsFile0, chart,
                   envVars, fsVars, acqVars, tplVars, docVars>>

\* if not target_path.exists(): sys.exit(1)
ValidateTarget ==
    /\ pc = "validate"
    /\ IF targetExists
       THEN pc' = "results_dir" /\ exitCode' = exitCode
       ELSE Exit(1)
    /\ UNCHANGED <<args, hyperfine, targetExists, tools, engineLog, benchResult,
                   resultsFile, resultsFile0, chart,
                   envVars, fsVars, acqVars, tplVars, docVars>>

\* The markdown files are counted and benchmark/results is created; an
\* error of the file system ends the process with a traceback.
MakeResultsDir ==
    /\ pc = "results_dir"
    /\ \E ok \in BOOLEAN :
          IF ok THEN pc' = "bench" /\ exitCode' = exitCode ELSE Exit(1)
    /\ UNCHANGED <<args, hyperfine, targetExists, tools, engineLog, benchResult,
                   resultsFile, resultsFile0, chart,
                   envVars, fsVars, acqVars, tplVars, docVars>>

\* run_benchmark(): the commands are built and hyperfine is run once.  On
\* exit status 0 it has written the results document; on another status
\* the document is as it was or partly written.  main() then exits.
RunBenchmark ==
    /\ pc = "bench"
    /\ renders' = Append(renders,
          [target |-> MainTarget, root |-> MainRoot,
           commands |-> BuildCommands(tools.out.available, MainTarget, MainRoot)])
    /\ engineLog' = Append(engineLog, "benchmark")
    /\ \E status \in {"zero", "nonzero"} :
          IF status = "zero"
          THEN /\ resultsFile' = "valid"
               /\ results' = EngineResults(tools.out.available)
               /\ benchResult' = "ok"
               /\ Exit(0)
          ELSE /\ resultsFile' \in {resultsFile, "partial"}
               /\ results' = results
               /\ benchResult' = "failed"
               /\ Exit(1)
    /\ UNCHANGED <<args, hyperfine, targetExists, tools, resultsFile0, chart,
                   envVars, fsVars, acqVars, docExists, content, before, synced>>

\* main() of generate_benchmark_chart.py, run after the first entry point
\* has exited: generate_chart() then update_comparison_doc().  A missing
\* results document is reported (exit 1); one that is not JSON ends the
\* process with a traceback; a missing matplotlib is reported (exit 1).
ChartMain ==
    /\ pc = "exited" /\ ~chart.ran
    /\ \E matplotlib \in BOOLEAN, date \in Dates :
          LET outcome == IF resultsFile = "absent" THEN "results-missing"
                         ELSE IF resultsFile = "partial" THEN "traceback"
                         ELSE IF ~matplotlib THEN "matplotlib-missing"
                         ELSE "ok"
          IN  /\ chart' = [ran |-> TRUE, outcome |-> outcome,
                           exit |-> IF outcome = "ok" THEN 0 ELSE 1]
              /\ IF outcome = "ok" /\ docExists
                 THEN /\ content' = UpdateComparisonDoc(content, results, date)
                      /\ before' = content
                      /\ synced' = Append(synced, date)
                 ELSE UNCHANGED <<content, before, synced>>
    /\ UNCHANGED <<pc, args, hyperfine, targetExists, tools, engineLog,
                   benchResult, resultsFile, resultsFile0, exitCode,
                   docExists, results, envVars, fsVars, acqVars, tplVars>>

NextMain ==
    \/ CheckHyperfine
    \/ Discover
    \/ ValidateTarget
    \/ MakeResultsDir
    \/ RunBenchmark
    \/ ChartMain

SpecMain == InitMain /\ [][NextMain]_vars

(***************************************************************************)
(* Claims about _ensure_mado (SpecAcquire).                                *)
(***************************************************************************)
\* The archive the host serves holds an entry named exactly `mado`.
HasMadoEntry == <<"mado">> \in Range(served)

\* The archive holds no entry whose last component is mado or mado.exe.
NoMadoEntry == \A e \in Range(served) : Last(e) \notin {"mado", "mado.exe"}

\* C4 (as claimed): after a call that downloaded the archive and met no
\* error, for the tar and for the zip asset alike: if the archive holds an
\* entry named `mado` the call returned success and the cache file exists
\* with its executable bit set; if it holds no matching entry the call
\* returned failure and no cache file exists.
C4_OutcomeByContents ==
    (call.made /\ call.downloaded /\ call.fault = "none") =>
        /\ HasMadoEntry => (call.ret /\ madoBin = "exec")
        /\ NoMadoEntry => (~call.ret /\ madoBin = "absent")

\* C5 (as claimed): after every call that started a download the archive
\* file is gone from the cache directory, whatever the outcome.
C5_ArchiveDeleted == (call.made /\ call.downloaded) => ~archive

\* C9: a call made while the cache file exists returns success, starts no
\* download, raises nothing and leaves the cache file, the cache directory
\* and its contents as they were; this holds of every call of a sequence.
C9_FastPathIdempotent ==
    (call.made /\ call.fsBefore.bin # "absent") =>
        /\ call.ret /\ ~call.raised /\ ~call.downloaded
        /\ Fs = call.fsBefore

\* C9 witness: at least two calls in sequence, the last one on an existing
\* cache file.
C9_Witness ==
    ncalls >= 2 /\ call.made /\ call.fsBefore.bin # "absent" /\ call.ret

(***************************************************************************)
(* Claims about discover_tools (SpecDiscover).                             *)
(***************************************************************************)
\* The registry names among a sequence of names, in order.
Known(names) == SelectSeq(names, LAMBDA n : n \in ToolNames)

\* The names among a sequence that are not in the registry, in order.
Unknown(names) == SelectSeq(names, LAMBDA n : n \notin ToolNames)

\* What the probe of a registry entry returned in the last call: the
\* launcher's availability, and for mado what _ensure_mado returned.
ProbedTrue(n) ==
    IF TOOLS[n].check = "rumdl" THEN disc.launchers.rumdl
    ELSE IF TOOLS[n].check = "npx" THEN disc.launchers.npx
    ELSE IF TOOLS[n].check = "uvx" THEN disc.launchers.uvx
    ELSE <<n, TRUE>> \in Range(disc.out.probes)

ResultKeys == Range(disc.out.available)

\* C3 (as claimed): no error met while acquiring mado leaves
\* _ensure_mado, so discover_tools() always returns, having probed every
\* registry name of its list.
C3_AcquisitionNeverRaises ==
    disc.made =>
        /\ ~disc.out.raised
        /\ [i \in 1..Len(disc.out.probes) |-> disc.out.probes[i][1]]
              = Known(tool_names(disc.selected))

\* C8 (as claimed): the result holds exactly the requested registry
\* entries whose probe returned true: all of the registry without a
\* selection, the selected names with one.
C8_ExactlyRequested ==
    (disc.made /\ ~disc.out.raised) =>
        ResultKeys =
            {n \in (IF disc.selected.given THEN Range(disc.selected.names)
                    ELSE ToolNames) \cap ToolNames : ProbedTrue(n)}

\* C8 (amended): with no selection or an empty one the result holds
\* exactly the registry names whose probe returned true, with a non-empty
\* selection exactly the selected registry names whose probe returned
\* true; a name that is not in the registry is warned about, is never in
\* the result and does not end the call, and every registry name of the
\* list is probed, in order.
C8_DiscoverExact ==
    disc.made =>
        LET names == IF disc.selected.given /\ disc.selected.names # <<>>
                     THEN disc.selected.names ELSE ToolKeys
        IN  /\ disc.out.raised => "mado" \in Range(names)
            /\ ~disc.out.raised =>
                  /\ ResultKeys = {n \in Range(Known(names)) : ProbedTrue(n)}
                  /\ [i \in 1..Len(disc.out.probes) |-> disc.out.probes[i][1]]
                        = Known(names)
                  /\ disc.out.warned = Unknown(names)

\* C8 witness: a selection that starts with a name that is not in the
\* registry; the call returned and the name after it was probed and found.
C8_Witness ==
    /\ disc.made /\ ~disc.out.raised /\ disc.selected.given
    /\ Len(disc.selected.names) = 2
    /\ disc.selected.names[1] = "nosuchtool"
    /\ disc.out.available = <<disc.selected.names[2]>>

(***************************************************************************)
(* Claims about update_comparison_doc (SpecDoc).                           *)
(***************************************************************************)
\* The lines at which a table starts: a line the header ends, followed by
\* a separator line.
TablesOf(lines) ==
    {i \in 1..Len(lines) :
        /\ HeaderStart(lines[i]) > 0
        /\ i + 1 <= Len(lines) /\ IsSeparator(lines[i+1])}

RECURSIVE OldBlockEnd(_, _)
\* The last line of the table block whose last line so far is j: every
\* immediately following row line belongs to it.
OldBlockEnd(lines, j) ==
    IF j + 1 <= Len(lines) /\ IsRow(lines[j+1]) THEN OldBlockEnd(lines, j + 1)
    ELSE j

\* The document the claim describes for a document with one table, at
\* line i: the lines before the block, the fresh table, the lines after
\* the block.
WhollyReplaced(lines, i, rows) ==
    LET e == OldBlockEnd(lines, i + 1)
    IN  SubSeq(lines, 1, i - 1)
        \o NewTableLines(SubSeq(lines[i], 1, HeaderStart(lines[i]) - 1), rows)
        \o (IF e = Len(lines) THEN << <<>> >> ELSE SubSeq(lines, e + 1, Len(lines)))

\* C1 (as claimed): after one synchronisation of a document, apart from
\* the two date stamps: without a table the document is as it was; with
\* one table (that the pattern finds) the lines before and after the
\* table block are as they were and the block, through its last row
\* line, is replaced by the fresh table, also when that row is the last
\* line of the document and no line break follows it.
C1_FrameAndWholeTable ==
    (docExists /\ Len(synced) = 1) =>
        LET d == SubDates(before, synced[1])
        IN  /\ TablesOf(d) = {} => content = d
            /\ \A i \in TablesOf(d) :
                  (TablesOf(d) = {i} /\ MatchAt(d, i)) =>
                      content = WhollyReplaced(d, i, BuildRows(results))

\* C10 (as claimed): a second synchronisation in the same month with the
\* same results leaves the document as the first one wrote it.
C10_SyncIdempotent ==
    (Len(synced) = 2 /\ synced[1] = synced[2]) => content = before

(***************************************************************************)
(* Claims about command templating (SpecTemplate).                         *)
(***************************************************************************)
\* C7 (as claimed): with the same project root (the same acquired-binary
\* path), two different absolute target paths give two different command
\* strings for every tool, also when a target path holds the text of the
\* other placeholder.
C7_TemplatingInjective ==
    \A i, j \in 1..Len(renders) :
        Flatten(renders[i].target) # Flatten(renders[j].target) =>
            \A k \in 1..Len(ToolKeys) :
                renders[i].commands[k].cmd # renders[j].commands[k].cmd

(***************************************************************************)
(* Claims about the entry points (SpecMain).                               *)
(***************************************************************************)
\* C2 (as claimed): once the engine has exited non-zero, run_benchmark has
\* reported failure and the first entry point has exited non-zero, and the
\* run of the second entry point that follows reports the results missing
\* and exits non-zero, whatever the results path held before.
C2_FailureThenMissing ==
    (benchResult = "failed" /\ chart.ran) =>
        /\ exitCode # 0
        /\ chart.outcome = "results-missing"
        /\ chart.exit # 0

\* C6 (as claimed): the first entry point exits non-zero when no tool is
\* available, the target is missing or the engine fails, and when the
\* target is missing it ends before any start of the engine and before
\* any results document is written.
C6_NoEngineBeforeTargetCheck ==
    /\ (pc = "exited" /\ exitCode = 0) =>
          (tools.out.available # <<>> /\ targetExists /\ benchResult = "ok")
    /\ ~targetExists => (engineLog = <<>> /\ resultsFile = resultsFile0)

\* C6 (amended): the first entry point exits with status 0 only if a tool
\* was found, the target exists and the engine succeeded; and while the
\* target is missing the engine is never started to benchmark (its only
\* start is the `hyperfine --version` probe of check_hyperfine) and the
\* results document stays as it was.
C6_FatalChecksOrdered ==
    /\ (pc = "exited" /\ exitCode = 0) =>
          (tools.out.available # <<>> /\ targetExists /\ benchResult = "ok")
    /\ pc = "exited" => exitCode \in {0, 1}
    /\ ~targetExists =>
          /\ "benchmark" \notin Range(engineLog)
          /\ Range(engineLog) \subseteq {"--version"}
          /\ resultsFile = resultsFile0

\* C6 witness: tools were found, the target is missing, the process has
\* exited with status 1 after the version probe alone.
C6_Witness ==
    /\ pc = "exited" /\ exitCode = 1 /\ ~targetExists
    /\ tools.made /\ tools.out.available # <<>>
    /\ engineLog = <<"--version">>

====
